---- MODULE Spec2Model ----
(***************************************************************************)
(* Model of src/src/rko/LogStrategy.py: the log sinks (TerminalLogger,     *)
(* FileLogger, DualLogger), the ParallelLogManager (start, stop,           *)
(* get_logger, _listener_worker) and the WorkerLogger handle.              *)
(*                                                                         *)
(* The main process calls start(), stop() and get_logger() in any order;   *)
(* every worker that holds a handle calls log(); every listener process    *)
(* spawned by start() runs _listener_worker one source line at a time.     *)
(***************************************************************************)
EXTENDS Integers, Sequences, FiniteSets, TLC

\* ---------------------------------------------------------------- bounds
\* Total number of log() calls made by all workers together.
MaxLogs == 2
\* Number of sub-writes (print to stdout, print to the file) that raise.
MaxFails == 1

\* The worker processes that may be given a handle.
Producers == {1, 2}
\* Identities of the listener processes, in spawn order: the main process
\* calls start() at most twice.
Listeners == {1, 2}
\* A message <<p, i>> is the i-th payload (args, kwargs) logged by worker p.
Messages == Producers \X (1..MaxLogs)

\* A listener that holds no message.
NoPayload == <<0, 0>>

\* Value of listener_process before the first start() (line 48).
None == 0

\* Lines of text on a medium.  The payload is opaque: print(*args) of the
\* message <<p, i>> is the line <<"msg", p, i>>.
BannerLine == <<"banner", 0, 0>>
PriorLine == <<"prior", 0, 0>>
\* What the file holds before the sink is constructed.
PriorContent == <<PriorLine>>

VARIABLES
    kind,             \* which LogStrategy the manager was given
    reset,            \* the reset argument of FileLogger / DualLogger
    file,             \* content of the file at filepath
    terminal,         \* lines printed to stdout
    stderr,           \* messages reported by the listener's except clause
    queue,            \* ParallelLogManager.queue
    stop_event,       \* ParallelLogManager.stop_event
    listener_process, \* ParallelLogManager.listener_process (None or a listener)
    pc,               \* pc[l]: source line listener l is at
    payload,          \* payload[l]: the message listener l popped (line 71) and
                      \* has not finished with; NoPayload otherwise
    mainPc,           \* "ready", or "L60" while stop() blocks in join()
    handles,          \* workers that were given get_logger()'s result
    sent,             \* sent[p]: number of log() calls worker p completed
    delivered,        \* messages passed to strategy.log, in call order
    written,          \* messages FileLogger.log appended, in call order
    sentAtStop,       \* value of sent when stop() was last invoked
    stopped           \* how the last stop() call to return did so: "no" (none
                      \* returned yet), "unjoined" (line 59 found no listener
                      \* process) or "joined" (join() at line 60 returned)

vars == <<kind, reset, file, terminal, stderr, queue, stop_event,
          listener_process, pc, payload, mainPc, handles, sent, delivered,
          written, sentAtStop, stopped>>

sinkVars == <<file, terminal, stderr, delivered, written>>
mgrVars == <<stop_event, listener_process, mainPc, sentAtStop, stopped>>
cfgVars == <<kind, reset>>

\* ------------------------------------------------------------- the sinks
\* print(*args, **kwargs) of a payload: one line of text.
PrintLine(m) == <<"msg", m[1], m[2]>>

\* TerminalLogger.log: print to stdout, flushed.
TerminalLogger_log(out, m) == Append(out, PrintLine(m))

\* FileLogger.__init__: with reset the file is opened 'w' and the banner written.
FileLogger_init(content, rst) == IF rst THEN <<BannerLine>> ELSE content

\* FileLogger.log as it would be with the file opened 'w' instead of 'a'.
FileLogger_log_Truncating(content, m) == <<PrintLine(m)>>

\* FileLogger.log: the file is opened 'a' and the line printed to it.
FileLogger_log(content, m) == Append(content, PrintLine(m))

\* Construction of the strategy object handed to the manager.
Strategy_init(k, content, rst) ==
    IF k \in {"File", "Dual"} THEN FileLogger_init(content, rst) ELSE content

\* ------------------------------------------------------------------ Init
Init ==
    /\ kind \in {"Terminal", "File", "Dual"}
    /\ reset \in BOOLEAN
    /\ kind = "Terminal" => reset = FALSE
    /\ file = Strategy_init(kind, PriorContent, reset)
    /\ terminal = <<>>
    /\ stderr = <<>>
    /\ queue = <<>>
    /\ stop_event = FALSE
    /\ listener_process = None
    /\ pc = [l \in Listeners |-> "none"]
    /\ payload = [l \in Listeners |-> NoPayload]
    /\ mainPc = "ready"
    /\ handles = {}
    /\ sent = [p \in Producers |-> 0]
    /\ delivered = <<>>
    /\ written = <<>>
    /\ sentAtStop = [p \in Producers |-> 0]
    /\ stopped = "no"

\* ------------------------------------------------------- derived notions
\* Listener processes that were spawned and have not exited.
Running == {l \in Listeners : pc[l] \notin {"none", "done"}}
\* Number of start() calls so far.
nStarts == Cardinality({l \in Listeners : pc[l] # "none"})
\* Number of log() calls completed so far.
RECURSIVE SumSent(_)
SumSent(S) == IF S = {} THEN 0
              ELSE LET p == CHOOSE x \in S : TRUE IN sent[p] + SumSent(S \ {p})
nLogs == SumSent(Producers)
\* Number of sub-writes that raised so far (caught or about to be caught).
nFails == Len(stderr) + Cardinality({l \in Listeners : pc[l] = "L75"})

\* --------------------------------------------------- ParallelLogManager
\* start() as it would be if it cleared the event before spawning.
Start_ClearsEvent ==
    /\ mainPc = "ready"
    /\ nStarts < Cardinality(Listeners)
    /\ stop_event' = FALSE
    /\ LET l == nStarts + 1 IN
         /\ pc' = [pc EXCEPT ![l] = "L68"]
         /\ listener_process' = l
    /\ UNCHANGED <<cfgVars, sinkVars, queue, payload, mainPc, handles, sent,
                   sentAtStop, stopped>>

\* start(): spawn a listener process and remember it (lines 50-55).
Start ==
    /\ mainPc = "ready"
    /\ nStarts < Cardinality(Listeners)
    /\ LET l == nStarts + 1 IN
         /\ pc' = [pc EXCEPT ![l] = "L68"]
         /\ listener_process' = l
    /\ UNCHANGED <<cfgVars, sinkVars, queue, stop_event, payload, mainPc,
                   handles, sent, sentAtStop, stopped>>

\* stop(), lines 58-59: set the event; without a listener process return.
Stop ==
    /\ mainPc = "ready"
    /\ stop_event' = TRUE
    /\ sentAtStop' = sent
    /\ IF listener_process = None
         THEN /\ mainPc' = "ready"
              /\ stopped' = "unjoined"
         ELSE /\ mainPc' = "L60"
              /\ stopped' = stopped
    /\ UNCHANGED <<cfgVars, sinkVars, queue, listener_process, pc, payload,
                   handles, sent>>

\* stop(), line 60, as it would be if join() did not wait for the exit.
StopJoin_NoWait ==
    /\ mainPc = "L60"
    /\ mainPc' = "ready"
    /\ stopped' = "joined"
    /\ UNCHANGED <<cfgVars, sinkVars, queue, stop_event, listener_process, pc,
                   payload, handles, sent, sentAtStop>>

\* stop(), line 60: join() returns once the remembered process has exited.
StopJoin ==
    /\ mainPc = "L60"
    /\ pc[listener_process] = "done"
    /\ mainPc' = "ready"
    /\ stopped' = "joined"
    /\ UNCHANGED <<cfgVars, sinkVars, queue, stop_event, listener_process, pc,
                   payload, handles, sent, sentAtStop>>

\* get_logger(): a new WorkerLogger on the queue, handed to worker p.
GetLogger(p) ==
    /\ mainPc = "ready"
    /\ p \notin handles
    /\ handles' = handles \cup {p}
    /\ UNCHANGED <<cfgVars, sinkVars, mgrVars, queue, pc, payload, sent>>

\* ---------------------------------------------------------- WorkerLogger
\* queue.put on the manager's unbounded queue.
Put(q, m) == Append(q, m)

\* WorkerLogger.log as it would be if put waited for a running consumer.
Log_WaitsForConsumer(p) ==
    /\ p \in handles
    /\ nLogs < MaxLogs
    /\ Running # {}
    /\ queue' = Put(queue, <<p, sent[p] + 1>>)
    /\ sent' = [sent EXCEPT ![p] = @ + 1]
    /\ UNCHANGED <<cfgVars, sinkVars, mgrVars, pc, payload, handles>>

\* WorkerLogger.log: put the payload on the queue (line 84).
Log(p) ==
    /\ p \in handles
    /\ nLogs < MaxLogs
    /\ queue' = Put(queue, <<p, sent[p] + 1>>)
    /\ sent' = [sent EXCEPT ![p] = @ + 1]
    /\ UNCHANGED <<cfgVars, sinkVars, mgrVars, pc, payload, handles>>

\* ------------------------------------------------------ _listener_worker
\* Line 68 as it would be with the queue test left out: the loop ends as
\* soon as the event is set.
ListenerWhile_IgnoresQueue(l) ==
    /\ pc[l] = "L68"
    /\ pc' = [pc EXCEPT ![l] = IF ~stop_event THEN "L69" ELSE "done"]
    /\ UNCHANGED <<cfgVars, sinkVars, mgrVars, queue, payload, handles, sent>>

\* Line 68: while not stop_event.is_set() or not queue.empty().  The two
\* reads are one step: stop_event is never cleared, so reading it earlier
\* than the queue gives no other outcome.
ListenerWhile(l) ==
    /\ pc[l] = "L68"
    /\ pc' = [pc EXCEPT ![l] = IF ~stop_event \/ queue # <<>> THEN "L69" ELSE "done"]
    /\ UNCHANGED <<cfgVars, sinkVars, mgrVars, queue, payload, handles, sent>>

\* Line 69 as it would be with the test inverted.
ListenerDrain_Inverted(l) ==
    /\ pc[l] = "L69"
    /\ pc' = [pc EXCEPT ![l] = IF queue = <<>> THEN "L71" ELSE "L76"]
    /\ UNCHANGED <<cfgVars, sinkVars, mgrVars, queue, payload, handles, sent>>

\* Line 69: while not queue.empty().
ListenerDrain(l) ==
    /\ pc[l] = "L69"
    /\ pc' = [pc EXCEPT ![l] = IF queue # <<>> THEN "L71" ELSE "L76"]
    /\ UNCHANGED <<cfgVars, sinkVars, mgrVars, queue, payload, handles, sent>>

\* Lines 71-72 as they would be if the head of the queue were read without
\* being removed.
ListenerGet_Peeks(l) ==
    /\ pc[l] = "L71"
    /\ queue # <<>>
    /\ payload' = [payload EXCEPT ![l] = Head(queue)]
    /\ pc' = [pc EXCEPT ![l] = "L73"]
    /\ UNCHANGED <<cfgVars, sinkVars, mgrVars, queue, handles, sent>>

\* Lines 71-72: payload = queue.get(), which blocks while the queue is empty.
ListenerGet(l) ==
    /\ pc[l] = "L71"
    /\ queue # <<>>
    /\ payload' = [payload EXCEPT ![l] = Head(queue)]
    /\ queue' = Tail(queue)
    /\ pc' = [pc EXCEPT ![l] = "L73"]
    /\ UNCHANGED <<cfgVars, sinkVars, mgrVars, handles, sent>>

\* Line 73 with a TerminalLogger: strategy.log prints to stdout (line 18);
\* print raises when stdout cannot be written.
ListenerLogTerminal(l) ==
    /\ pc[l] = "L73"
    /\ kind = "Terminal"
    /\ delivered' = Append(delivered, payload[l])
    /\ \/ /\ terminal' = TerminalLogger_log(terminal, payload[l])
          /\ pc' = [pc EXCEPT ![l] = "L69"]
          /\ payload' = [payload EXCEPT ![l] = NoPayload]
       \/ /\ nFails < MaxFails
          /\ pc' = [pc EXCEPT ![l] = "L75"]
          /\ UNCHANGED <<terminal, payload>>
    /\ UNCHANGED <<cfgVars, file, written, stderr, mgrVars, queue, handles, sent>>

\* Line 73 with a FileLogger: strategy.log appends to the file (lines 29-30);
\* open raises when the file cannot be opened.
ListenerLogFile(l) ==
    /\ pc[l] = "L73"
    /\ kind = "File"
    /\ delivered' = Append(delivered, payload[l])
    /\ \/ /\ file' = FileLogger_log(file, payload[l])
          /\ written' = Append(written, payload[l])
          /\ pc' = [pc EXCEPT ![l] = "L69"]
          /\ payload' = [payload EXCEPT ![l] = NoPayload]
       \/ /\ nFails < MaxFails
          /\ pc' = [pc EXCEPT ![l] = "L75"]
          /\ UNCHANGED <<file, written, payload>>
    /\ UNCHANGED <<cfgVars, terminal, stderr, mgrVars, queue, handles, sent>>

\* Line 73 with a DualLogger: DualLogger.log begins with self.terminal.log
\* (line 39); an exception leaves DualLogger.log.
DualLogTerminal(l) ==
    /\ pc[l] = "L73"
    /\ kind = "Dual"
    /\ delivered' = Append(delivered, payload[l])
    /\ \/ /\ terminal' = TerminalLogger_log(terminal, payload[l])
          /\ pc' = [pc EXCEPT ![l] = "L40"]
       \/ /\ nFails < MaxFails
          /\ pc' = [pc EXCEPT ![l] = "L75"]
          /\ UNCHANGED terminal
    /\ UNCHANGED <<cfgVars, file, written, stderr, mgrVars, queue, payload,
                   handles, sent>>

\* DualLogger.log, line 40: self.file.log, then back in the listener.
DualLogFile(l) ==
    /\ pc[l] = "L40"
    /\ \/ /\ file' = FileLogger_log(file, payload[l])
          /\ written' = Append(written, payload[l])
          /\ pc' = [pc EXCEPT ![l] = "L69"]
          /\ payload' = [payload EXCEPT ![l] = NoPayload]
       \/ /\ nFails < MaxFails
          /\ pc' = [pc EXCEPT ![l] = "L75"]
          /\ UNCHANGED <<file, written, payload>>
    /\ UNCHANGED <<cfgVars, terminal, stderr, delivered, mgrVars, queue,
                   handles, sent>>

\* Lines 74-75 as they would be without the except clause: the exception
\* ends the listener process.
ListenerExcept_Propagates(l) ==
    /\ pc[l] = "L75"
    /\ pc' = [pc EXCEPT ![l] = "done"]
    /\ payload' = [payload EXCEPT ![l] = NoPayload]
    /\ UNCHANGED <<cfgVars, sinkVars, mgrVars, queue, handles, sent>>

\* Lines 74-75 as they would be if the except clause put the payload back
\* on the queue for another attempt.
ListenerExcept_Requeues(l) ==
    /\ pc[l] = "L75"
    /\ stderr' = Append(stderr, payload[l])
    /\ queue' = Append(queue, payload[l])
    /\ pc' = [pc EXCEPT ![l] = "L69"]
    /\ payload' = [payload EXCEPT ![l] = NoPayload]
    /\ UNCHANGED <<cfgVars, file, terminal, delivered, written, mgrVars,
                   handles, sent>>

\* Lines 74-75: the exception is reported on stderr and the drain goes on.
ListenerExcept(l) ==
    /\ pc[l] = "L75"
    /\ stderr' = Append(stderr, payload[l])
    /\ pc' = [pc EXCEPT ![l] = "L69"]
    /\ payload' = [payload EXCEPT ![l] = NoPayload]
    /\ UNCHANGED <<cfgVars, file, terminal, delivered, written, mgrVars, queue,
                   handles, sent>>

\* Line 76 as it would be if the sleep were followed by the drain loop's
\* test instead of the outer condition.
ListenerSleep_SkipsTest(l) ==
    /\ pc[l] = "L76"
    /\ pc' = [pc EXCEPT ![l] = "L69"]
    /\ UNCHANGED <<cfgVars, sinkVars, mgrVars, queue, payload, handles, sent>>

\* Line 76: time.sleep(0.05), then the outer condition again.
ListenerSleep(l) ==
    /\ pc[l] = "L76"
    /\ pc' = [pc EXCEPT ![l] = "L68"]
    /\ UNCHANGED <<cfgVars, sinkVars, mgrVars, queue, payload, handles, sent>>

\* ------------------------------------------------------- specification
Next ==
    \/ Start
    \/ Stop
    \/ StopJoin
    \/ \E p \in Producers : GetLogger(p)
    \/ \E p \in Producers : Log(p)
    \/ \E l \in Listeners : ListenerWhile(l)
    \/ \E l \in Listeners : ListenerDrain(l)
    \/ \E l \in Listeners : ListenerGet(l)
    \/ \E l \in Listeners : ListenerLogTerminal(l)
    \/ \E l \in Listeners : ListenerLogFile(l)
    \/ \E l \in Listeners : DualLogTerminal(l)
    \/ \E l \in Listeners : DualLogFile(l)
    \/ \E l \in Listeners : ListenerExcept(l)
    \/ \E l \in Listeners : ListenerSleep(l)

Spec == Init /\ [][Next]_vars

\* Any step of listener process l.
ListenerStep(l) ==
    \/ ListenerWhile(l)
    \/ ListenerDrain(l)
    \/ ListenerGet(l)
    \/ ListenerLogTerminal(l)
    \/ ListenerLogFile(l)
    \/ DualLogTerminal(l)
    \/ DualLogFile(l)
    \/ ListenerExcept(l)
    \/ ListenerSleep(l)

\* The operating system schedules every listener process that can take a
\* step, and join() returns once the joined process has exited.  Nothing is
\* assumed of the main process's other calls or of the workers.
FairSpec ==
    /\ Spec
    /\ \A l \in Listeners : WF_vars(ListenerStep(l))
    /\ WF_vars(StopJoin)

\* ------------------------------------------------------ helper notions
Range(q) == {q[i] : i \in 1..Len(q)}
\* Number of times message m was passed to strategy.log.
Count(m, q) == Cardinality({i \in 1..Len(q) : q[i] = m})
\* Messages whose log() call had completed when stop() was last invoked.
SentBeforeStop == {m \in Messages : m[2] <= sentAtStop[m[1]]}
\* Messages whose log() call has completed.
Logged == {m \in Messages : m[2] <= sent[m[1]]}
\* Some stop() call has returned and none is in progress.
StopReturned == stopped # "no" /\ mainPc = "ready"

\* ------------------------------------------------------------- claims

\* C1: in every state in which stop() has returned, every message whose
\* log() completed before stop() was invoked has been passed to the sink
\* exactly once.
C1_DrainBeforeExit ==
    StopReturned => \A m \in SentBeforeStop : Count(m, delivered) = 1

\* C2: two messages of the same worker are never passed to the sink in the
\* reverse of the order in which the worker logged them.
C2_FifoPerProducer ==
    \A i, j \in 1..Len(delivered) :
        (i < j /\ delivered[i][1] = delivered[j][1])
            => delivered[i][2] < delivered[j][2]

\* C3: an exception raised by the sink is caught inside the listener loop:
\* a listener that is in strategy.log or in the except clause stays in the
\* loop (it never exits from there), the except clause returns to the drain
\* loop's test with the queue untouched, so the next message is still
\* popped and dispatched.
C3_FailureIsolation ==
    [][\A l \in Listeners :
         /\ pc[l] \in {"L73", "L40", "L75"}
                => pc'[l] \in {"L73", "L40", "L75", "L69"}
         /\ (pc[l] = "L75" /\ pc'[l] # "L75")
                => (pc'[l] = "L69" /\ queue' = queue /\ delivered' = delivered)
      ]_vars

\* C3 witness: one listener only; a message whose write raised was reported
\* and a later message was passed to the sink after it.
C3_Witness ==
    /\ nStarts = 1
    /\ \E i, j \in 1..Len(delivered) :
         /\ i < j
         /\ delivered[i] \in Range(stderr)
         /\ delivered[j] \notin Range(stderr)
         /\ PrintLine(delivered[j]) \in Range(terminal) \cup Range(file)

\* C4: with a Dual sink, once the terminal sub-write of a message has been
\* made (it returned or raised), the file sub-write of that message is what
\* the listener does next.
C4_DualIsolation ==
    [][\A l \in Listeners :
         (kind = "Dual" /\ pc[l] = "L73" /\ pc'[l] # "L73") => pc'[l] = "L40"
      ]_vars

\* C5: at most one listener process is running at any time.
C5_AtMostOneListener == Cardinality(Running) <= 1

\* C6: whenever a stop() call returns, no listener process is running.
C6_JoinBarrier ==
    [][(mainPc = "L60" /\ mainPc' = "ready") => Running' = {}]_vars

\* C7: on a manager on which start() was never called, no stop() call
\* returns normally.
C7_StopBeforeStartFails == nStarts = 0 => stopped = "no"

\* C8: once stop() has returned from joining the listener (the manager went
\* Idle, Running, Stopping, Stopped), no later operation puts a listener
\* process into the running state.
C8_StoppedIsTerminal ==
    [][(mainPc = "ready" /\ stopped = "joined") => Running' \subseteq Running]_vars

\* C9: while start() was never called, every log() call made through a
\* handle is possible (it does not wait for a consumer), and the queue
\* holds exactly the logged messages, each once, nothing having reached
\* the sink.
C9_EnqueueWithoutConsumer ==
    nStarts = 0 =>
        /\ \A p \in handles : nLogs < MaxLogs => ENABLED Log(p)
        /\ Len(queue) = nLogs
        /\ Range(queue) = Logged
        /\ delivered = <<>>

\* C9 witness: never started, two messages logged and still in the queue.
C9_Witness == nStarts = 0 /\ Len(queue) = 2 /\ nLogs = 2

\* The content of the file right after the sink's construction, as the
\* claim C10 states it.
PostConstruction == IF reset THEN <<BannerLine>> ELSE <<PriorLine>>
\* The lines of the messages in q.
Lines(q) == [i \in 1..Len(q) |-> <<"msg", q[i][1], q[i][2]>>]

\* C10: the file of a File (or Dual) sink holds the banner only (reset) or
\* the prior content (no reset), followed by the written messages in write
\* order.
C10_FileResetSemantics ==
    kind \in {"File", "Dual"} => file = PostConstruction \o Lines(written)

\* C10 witness: a File sink built with reset, two messages written.
C10_Witness == kind = "File" /\ reset /\ Len(written) = 2 /\ Len(file) = 3

\* C11: stop_event is false exactly as long as stop() has not been called;
\* the only step that sets it is the first step of stop(), made by the main
\* process; no step of start(), get_logger(), log(), a further stop() or a
\* listener clears it.
C11_SignalSetOnce ==
    /\ [](stop_event <=> (mainPc = "L60" \/ stopped # "no"))
    /\ [][stop_event => stop_event']_vars
    /\ [][(~stop_event /\ stop_event')
            => (mainPc = "ready" /\ sentAtStop' = sent
                /\ UNCHANGED <<pc, queue, handles, sent, listener_process>>)]_vars

\* C11 witness: the event is still set after stop() returned, start() was
\* called again, a message was logged and a listener has delivered one.
C11_Witness ==
    /\ stop_event
    /\ stopped = "joined"
    /\ nStarts = 2
    /\ nLogs = MaxLogs
    /\ delivered # <<>>

\* C12: a listener exits only by a step of the test at line 68 taken in a
\* state in which stop_event is set and the queue is empty.
C12_ExitCondition ==
    [][\A l \in Listeners :
         (pc[l] # "done" /\ pc'[l] = "done")
            => (pc[l] = "L68" /\ stop_event /\ queue = <<>>)
      ]_vars

\* C12 witness: the only listener has exited after passing every message
\* to the sink.
C12_Witness ==
    /\ nStarts = 1
    /\ pc[1] = "done"
    /\ Len(delivered) = MaxLogs

\* C13: whenever a listener is about to execute queue.get() (line 71, after
\* its test at line 69 found the queue non-empty), the queue still holds a
\* message, so the get does not block.
C13_GetNeverBlocks ==
    \A l \in Listeners : pc[l] = "L71" => queue # <<>>

\* Listeners that are inside strategy.log: a DualLogger.log call whose
\* terminal sub-write is done and whose file sub-write is still to come.
InSinkWrite == {l \in Listeners : pc[l] = "L40"}

\* C14: at most one strategy.log call is in progress at any time, and a
\* message is passed to the sink only by a step of a listener process.
C14_WritesNeverOverlap ==
    /\ [](Cardinality(InSinkWrite) <= 1)
    /\ [][delivered' # delivered
            => \E l \in Listeners : pc[l] = "L73" /\ pc'[l] # "L73"]_vars

\* C15: with start() called once, a stop() call that is blocked in join()
\* eventually returns (the workers log at most MaxLogs messages).
C15_ShutdownLiveness ==
    (mainPc = "L60" /\ nStarts = 1) ~> (mainPc = "ready")

\* C15 witness: start() was called once, stop() returned from join() and
\* every message was passed to the sink.
C15_Witness ==
    /\ nStarts = 1
    /\ mainPc = "ready"
    /\ stopped = "joined"
    /\ Len(delivered) = MaxLogs

\* Messages whose log() call completed after stop() was last invoked, that
\* is, after stop_event was set.
Stragglers == Logged \ SentBeforeStop

\* C16: a message enqueued after stop() set the event and before the
\* listener's final test of the queue is delivered: when the only listener
\* exits, every message logged so far after the event was set has been
\* passed to the sink (C16_Witness shows that such an execution exists).
C16_StragglerDelivered ==
    [][\A l \in Listeners :
         (nStarts = 1 /\ pc[l] # "done" /\ pc'[l] = "done")
            => Stragglers \subseteq Range(delivered)
      ]_vars

\* C16 witness: start() was called once, stop() has returned from join(),
\* and a message logged after stop() was invoked was passed to the sink.
C16_Witness ==
    /\ nStarts = 1
    /\ mainPc = "ready"
    /\ stopped = "joined"
    /\ \E m \in Stragglers : Count(m, delivered) = 1

\* C17, as claimed: a listener enters the sleep at line 76 only in a state
\* in which the queue is empty and stop_event is not set.
C17_SleepOnlyBeforeSignal ==
    [][\A l \in Listeners :
         (pc[l] # "L76" /\ pc'[l] = "L76") => (queue = <<>> /\ ~stop_event)
      ]_vars

\* C17, amended: a listener enters the sleep at line 76 only by the test at
\* line 69 finding the queue empty, whether or not stop_event is set.
C17_SleepAfterEmptyDrain ==
    [][\A l \in Listeners :
         (pc[l] # "L76" /\ pc'[l] = "L76") => (pc[l] = "L69" /\ queue = <<>>)
      ]_vars

\* C17 witness: the only listener is in the sleep with stop_event set, after
\* it delivered a message.
C17_Witness ==
    /\ nStarts = 1
    /\ pc[1] = "L76"
    /\ stop_event
    /\ delivered # <<>>

\* Listeners that popped a message and have not yet passed it to the sink.
Holding == {l \in Listeners : pc[l] = "L73"}
\* Number of places message m is in: the queue, a listener holding it,
\* the calls of strategy.log.
Places(m) ==
    Count(m, queue) + Cardinality({l \in Holding : payload[l] = m})
        + Count(m, delivered)

\* C18: every logged message is in exactly one place (the queue, a listener
\* that popped it and has not yet called strategy.log, or the calls of
\* strategy.log), nothing else is in any of them, and the number of
\* strategy.log calls never exceeds the number of completed log() calls.
C18_MessageConservation ==
    /\ \A m \in Messages : Places(m) = IF m \in Logged THEN 1 ELSE 0
    /\ Len(queue) + Cardinality(Holding) + Len(delivered) = nLogs
    /\ Len(delivered) <= nLogs

\* C18 witness: with two listeners, one message is held by a listener and
\* another has been passed to the sink.
C18_Witness ==
    /\ nStarts = 2
    /\ Holding # {}
    /\ Len(delivered) = 1
    /\ nLogs = 2

\* Messages for which strategy.log raised: reported on stderr, or about to
\* be (the listener is in the except clause).
Failed == Range(stderr) \cup {payload[l] : l \in {k \in Listeners : pc[k] = "L75"}}

\* C19: a message for which strategy.log raised was passed to strategy.log
\* once, is not in the queue and is not held for another call by any
\* listener, in every later state.
C19_NoRetry ==
    \A m \in Failed :
        /\ Count(m, delivered) = 1
        /\ Count(m, queue) = 0
        /\ \A l \in Listeners : pc[l] \in {"L73", "L40"} => payload[l] # m

\* C19 witness: a write raised, the only listener went on to pass the other
\* message to the sink and has exited.
C19_Witness ==
    /\ nStarts = 1
    /\ pc[1] = "done"
    /\ Len(stderr) = 1
    /\ Len(delivered) = 2

\* start() was called once and a stop() call made after it has returned.
ShutDown == nStarts = 1 /\ stopped = "joined"

\* C20: on a manager started once, once stop() has returned no listener is
\* running, log() is still possible through every handle, and as long as
\* start() is not called again no step passes a message to the sink or
\* writes the terminal or the file, and the queue only grows at its tail:
\* a message logged after the shutdown stays in the queue.
C20_SilentPostShutdownEnqueue ==
    /\ [](ShutDown =>
            /\ Running = {}
            /\ \A p \in handles : nLogs < MaxLogs => ENABLED Log(p))
    /\ [][(ShutDown /\ nStarts' = 1) =>
            /\ delivered' = delivered
            /\ terminal' = terminal
            /\ file' = file
            /\ \/ queue' = queue
               \/ \E m \in Messages : queue' = Append(queue, m)
         ]_vars

\* C20 witness: after the shutdown of a manager that delivered a message,
\* a message logged later is in the queue.
C20_Witness ==
    /\ ShutDown
    /\ mainPc = "ready"
    /\ delivered # <<>>
    /\ \E m \in Stragglers : Count(m, queue) = 1

====
